---------------------------- MODULE Spec2Model ----------------------------
(***************************************************************************)
(* A model of the recipe recommender component                             *)
(* (src/app/components/RecipeRecommender.tsx): the pantry kept in React    *)
(* state, the manual-entry parser, the asynchronous detection runs, the    *)
(* ranking of the recipes and the serving calculator of a recipe card.     *)
(*                                                                         *)
(* Strings are sequences of one-character strings, so that trimming,       *)
(* lowercasing, splitting and the parser's regular expression are computed *)
(* character by character.  Quantities and confidences are exact decimals  *)
(* held as integers in thousandths (1500 is 1.5); a recipe's score and the *)
(* average confidence of a batch are exact fractions.                      *)
(***************************************************************************)
EXTENDS Integers, Sequences, FiniteSets, Bags, TLC

VARIABLES
    pantryItems,        \* useState<PantryItem[]>([])
    manualEntry,        \* useState("")
    visionLoading,      \* useState(false)
    visionStatus,       \* useState<string | null>(null)
    visionConfidence,   \* useState<number>(0)
    modelPromise,       \* the module-level promise of loadVisionModel
    loads,              \* how many times the import of the model was started
    runs,               \* the detectIngredients runs in flight
    input,              \* the text handed to parseManualEntry
    output,             \* what parseManualEntry returned
    called,             \* whether parseManualEntry has returned
    baseServings,       \* recipe.baseServings of a recipe card
    ingredientQuantity, \* ingredient.quantity of one ingredient of the card
    servings,           \* useState<number>(recipe.baseServings)
    shown,              \* formatQuantity(ingredient.quantity * multiplier)
    raised              \* whether the card has thrown

appVars == <<pantryItems, manualEntry, visionLoading, visionStatus,
             visionConfidence, modelPromise, loads, runs>>
parseVars == <<input, output, called>>
cardVars == <<baseServings, ingredientQuantity, servings, shown, raised>>
others == <<parseVars, cardVars>>
vars == <<appVars, parseVars, cardVars>>

(***************************************************************************)
(* Bounds of the model.                                                    *)
(***************************************************************************)
MaxLen == 5

(***************************************************************************)
(* Characters.                                                             *)
(***************************************************************************)
LowerSeq == <<"a","b","c","d","e","f","g","h","i","j","k","l","m",
              "n","o","p","q","r","s","t","u","v","w","x","y","z">>
UpperSeq == <<"A","B","C","D","E","F","G","H","I","J","K","L","M",
              "N","O","P","Q","R","S","T","U","V","W","X","Y","Z">>
DigitSeq == <<"0","1","2","3","4","5","6","7","8","9">>

Range(f) == {f[i] : i \in DOMAIN f}

Digits == Range(DigitSeq)
Uppers == Range(UpperSeq)
WordChars == Range(LowerSeq) \cup Uppers \cup Digits \cup {"_"}
Spaces == {" ", "\t", "\n"}

\* \d of the regular expression
IsDigit(c) == c \in Digits
\* \w of the regular expression
IsWordChar(c) == c \in WordChars
\* \s of the regular expression, and what String.prototype.trim strips
IsSpace(c) == c \in Spaces
\* the separators of split(/,|\n/)
IsSeparator(c) == c \in {",", "\n"}

DigitValueOf == [c \in Digits |-> (CHOOSE i \in DOMAIN DigitSeq : DigitSeq[i] = c) - 1]
DigitValue(c) == DigitValueOf[c]

LowerOf == [c \in Uppers |-> LowerSeq[CHOOSE i \in DOMAIN UpperSeq : UpperSeq[i] = c]]
toLowerCaseChar(c) == IF c \in Uppers THEN LowerOf[c] ELSE c

toLowerCase(s) == [i \in 1..Len(s) |-> toLowerCaseChar(s[i])]

(***************************************************************************)
(* String.prototype.trim, split(/,|\n/) and parseFloat.                    *)
(***************************************************************************)
RECURSIVE trimStart(_)
trimStart(s) ==
    IF s # <<>> /\ IsSpace(Head(s)) THEN trimStart(Tail(s)) ELSE s

RECURSIVE trimEnd(_)
trimEnd(s) ==
    IF s # <<>> /\ IsSpace(s[Len(s)]) THEN trimEnd(SubSeq(s, 1, Len(s) - 1)) ELSE s

trim(s) == trimEnd(trimStart(s))

RECURSIVE split(_)
split(s) ==
    IF \E i \in 1..Len(s) : IsSeparator(s[i])
    THEN LET i == CHOOSE k \in 1..Len(s) :
                      IsSeparator(s[k]) /\ \A j \in 1..(k - 1) : ~IsSeparator(s[j])
         IN  <<SubSeq(s, 1, i - 1)>> \o split(SubSeq(s, i + 1, Len(s)))
    ELSE <<s>>

\* the value of a run of digits read as an integer
RECURSIVE DigitsValue(_)
DigitsValue(ds) ==
    IF ds = <<>> THEN 0
    ELSE 10 * DigitsValue(SubSeq(ds, 1, Len(ds) - 1)) + DigitValue(ds[Len(ds)])

\* the first three fractional digits as thousandths
FractionValue(fs) ==
    (IF Len(fs) >= 1 THEN 100 * DigitValue(fs[1]) ELSE 0)
    + (IF Len(fs) >= 2 THEN 10 * DigitValue(fs[2]) ELSE 0)
    + (IF Len(fs) >= 3 THEN DigitValue(fs[3]) ELSE 0)

\* parseFloat of a string \d+(\.\d+)?, in thousandths; exact for up to three
\* fractional digits, which is all a text of the model can hold
parseFloat(q) ==
    LET dot == IF \E i \in 1..Len(q) : q[i] = "."
               THEN CHOOSE i \in 1..Len(q) : q[i] = "."
               ELSE Len(q) + 1
    IN  1000 * DigitsValue(SubSeq(q, 1, dot - 1))
        + FractionValue(SubSeq(q, dot + 1, Len(q)))

\* quantity?: number left out of a PantryItem
Undefined == -1

(***************************************************************************)
(* entry.match of parseManualEntry: a number \d+ with an optional         *)
(* fraction \.\d+, then \s*, an optional unit \w+, then \s+, then the      *)
(* rest of the entry as the name.                                          *)
(*                                                                         *)
(* A way to match is a tuple <<a, b, c, d, e>> of positions of the entry:  *)
(* \d+ ends at a, the optional fraction at b (b = a when it is skipped),   *)
(* \s* at c, the optional unit at d (d = c when it is skipped), \s+ at e,  *)
(* and the name takes the rest.  Every quantifier is greedy and the engine *)
(* backtracks from the last choice to the first, so the match it returns   *)
(* is the greatest way in lexicographic order.                             *)
(***************************************************************************)
\* the end of the longest run of characters of a class that starts after `from`
InClass(class, c) ==
    CASE class = "d" -> IsDigit(c)
      [] class = "w" -> IsWordChar(c)
      [] class = "s" -> IsSpace(c)

RECURSIVE RunEnd(_, _, _)
RunEnd(s, from, class) ==
    IF from < Len(s) /\ InClass(class, s[from + 1])
    THEN RunEnd(s, from + 1, class)
    ELSE from

FractionEnds(s, a) ==
    {a} \cup (IF a < Len(s) /\ s[a + 1] = "."
              THEN (a + 2)..RunEnd(s, a + 1, "d")
              ELSE {})

MatchWays(s) ==
    UNION { UNION { UNION { UNION {
        { <<a, b, c, d, e>> : e \in (d + 1)..RunEnd(s, d, "s") }
        : d \in c..RunEnd(s, c, "w") }
        : c \in b..RunEnd(s, b, "s") }
        : b \in FractionEnds(s, a) }
        : a \in 1..RunEnd(s, 0, "d") }

LexLess(t, u) ==
    \E i \in 1..5 : t[i] < u[i] /\ \A j \in 1..(i - 1) : t[j] = u[j]

\* null when nothing matches, else the groups [qty, unit, name]
NoMatch == [matched |-> FALSE]
match(s) ==
    LET ways == MatchWays(s) IN
    IF ways = {} THEN NoMatch
    ELSE LET w == CHOOSE t \in ways : \A u \in ways : ~LexLess(t, u)
         IN  [matched |-> TRUE,
              qty     |-> SubSeq(s, 1, w[2]),
              hasUnit |-> w[4] > w[3],
              unit    |-> SubSeq(s, w[3] + 1, w[4]),
              name    |-> SubSeq(s, w[5] + 1, Len(s))]

\* parseEntry with the unit left out of the name
parseEntryWithoutUnit(entry) ==
    LET m == match(entry) IN
    IF m.matched
    THEN [name |-> trim(m.name), quantity |-> parseFloat(m.qty)]
    ELSE [name |-> entry, quantity |-> Undefined]

parseEntry(entry) ==
    LET m == match(entry) IN
    IF m.matched
    THEN LET prettyName == IF m.hasUnit THEN m.unit \o <<" ">> \o m.name ELSE m.name
         IN  [name |-> trim(prettyName), quantity |-> parseFloat(m.qty)]
    ELSE [name |-> entry, quantity |-> Undefined]

\* parseManualEntry without .map((entry) => entry.trim())
parseManualEntryUntrimmed(text) ==
    LET segments == split(text)
        kept     == SelectSeq(segments, LAMBDA e : e # <<>>)
    IN  [i \in 1..Len(kept) |-> parseEntry(kept[i])]

parseManualEntry(text) ==
    LET segments == split(text)
        trimmed  == [i \in 1..Len(segments) |-> trim(segments[i])]
        kept     == SelectSeq(trimmed, LAMBDA e : e # <<>>)
    IN  [i \in 1..Len(kept) |-> parseEntry(kept[i])]


(***************************************************************************)
(* normalize of the item names (the library @/lib/recommendations is not   *)
(* part of the source at hand; this follows section 4.1 of the             *)
(* specification): trim, collapse each run of whitespace to one space,     *)
(* lowercase.                                                              *)
(***************************************************************************)
RECURSIVE collapseWhitespace(_)
collapseWhitespace(s) ==
    IF s = <<>> THEN <<>>
    ELSE IF IsSpace(Head(s))
         THEN <<" ">> \o collapseWhitespace(trimStart(s))
         ELSE <<Head(s)>> \o collapseWhitespace(Tail(s))

normalize(raw) == toLowerCase(collapseWhitespace(trim(raw)))

(***************************************************************************)
(* mergePantryItems (section 4.4 of the specification): the stream is read *)
(* in order, every name is normalized, an entry whose name is already kept *)
(* overwrites that item's quantity where it stands, and any other entry is *)
(* appended.                                                               *)
(***************************************************************************)
RECURSIVE mergeInto(_, _)
mergeInto(kept, stream) ==
    IF stream = <<>> THEN kept
    ELSE LET item == Head(stream)
             key  == normalize(item.name)
         IN  IF \E i \in 1..Len(kept) : kept[i].name = key
             THEN LET i == CHOOSE k \in 1..Len(kept) : kept[k].name = key
                  IN  mergeInto([kept EXCEPT ![i].quantity = item.quantity],
                                Tail(stream))
             ELSE mergeInto(Append(kept, [name |-> key, quantity |-> item.quantity]),
                            Tail(stream))

mergePantryItems(stream) == mergeInto(<<>>, stream)

(***************************************************************************)
(* The recipe catalog (@/data/recipes is not part of the source at hand):  *)
(* a fixture of the shape section 3 of the specification gives a Recipe,   *)
(* cut to the fields the ranking and the calculator read.                  *)
(***************************************************************************)
Egg    == <<"e","g","g">>
Kiwi   == <<"k","i","w","i">>
Bread  == <<"b","r","e","a","d">>
Cheese == <<"c","h","e","e","s","e">>

RECIPES == <<
    [id |-> "omelette",    baseServings |-> 2, ingredients |-> <<Egg, Cheese>>],
    [id |-> "fruit-bowl",  baseServings |-> 4, ingredients |-> <<Kiwi>>],
    [id |-> "egg-toast",   baseServings |-> 1, ingredients |-> <<Egg, Bread>>],
    [id |-> "kiwi-omelette", baseServings |-> 3, ingredients |-> <<Egg, Kiwi>>],
    [id |-> "water",       baseServings |-> 1, ingredients |-> <<>>] >>

(***************************************************************************)
(* scoreRecipes (section 4.5 of the specification).  A score is the        *)
(* fraction matched / ingredients, kept as the pair [num, den].            *)
(***************************************************************************)
Fraction(n, d) == [num |-> n, den |-> d]
Zero == Fraction(0, 1)
FracLess(x, y) == x.num * y.den < y.num * x.den
FracEq(x, y) == x.num * y.den = y.num * x.den

scoreRecipe(recipe, pantry) ==
    LET names   == Range(recipe.ingredients)
        keys    == {normalize(pantry[i].name) : i \in 1..Len(pantry)}
        matched == {n \in names : normalize(n) \in keys}
    IN  [recipe             |-> recipe.id,
         matchedIngredients |-> matched,
         missingIngredients |-> names \ matched,
         score              |-> IF names = {} THEN Zero
                                ELSE Fraction(Cardinality(matched), Cardinality(names))]

\* one step of a stable descending sort: x goes after every element that
\* does not score less than it
insertByScore(sorted, x) ==
    LET before == IF \E i \in 1..Len(sorted) : FracLess(sorted[i].score, x.score)
                  THEN (CHOOSE i \in 1..Len(sorted) :
                            /\ FracLess(sorted[i].score, x.score)
                            /\ \A j \in 1..(i - 1) : ~FracLess(sorted[j].score, x.score)) - 1
                  ELSE Len(sorted)
    IN  SubSeq(sorted, 1, before) \o <<x>> \o SubSeq(sorted, before + 1, Len(sorted))

RECURSIVE sortByScore(_)
sortByScore(rs) ==
    IF rs = <<>> THEN <<>>
    ELSE insertByScore(sortByScore(SubSeq(rs, 1, Len(rs) - 1)), rs[Len(rs)])

scoreRecipes(catalog, pantry) ==
    sortByScore([i \in 1..Len(catalog) |-> scoreRecipe(catalog[i], pantry)])

\* the memo computed once, from the pantry of the first render
staleRecommendations == scoreRecipes(RECIPES, <<>>)

\* const recommendations = useMemo(() => scoreRecipes(RECIPES, pantryItems), [pantryItems]):
\* a value derived from the pantry at every render
recommendations == scoreRecipes(RECIPES, pantryItems)

(***************************************************************************)
(* The detection run's own computations.                                   *)
(***************************************************************************)
allowedVisionLabels == {
    <<"a","p","p","l","e">>,  \* apple
    <<"b","a","n","a","n","a">>,  \* banana
    <<"o","r","a","n","g","e">>,  \* orange
    <<"c","a","r","r","o","t">>,  \* carrot
    <<"b","r","o","c","c","o","l","i">>,  \* broccoli
    <<"c","u","c","u","m","b","e","r">>,  \* cucumber
    <<"t","o","m","a","t","o">>,  \* tomato
    <<"p","o","t","a","t","o">>,  \* potato
    <<"l","e","m","o","n">>,  \* lemon
    <<"l","i","m","e">>,  \* lime
    <<"p","e","p","p","e","r">>,  \* pepper
    <<"b","e","l","l"," ","p","e","p","p","e","r">>,  \* bell pepper
    <<"c","a","b","b","a","g","e">>,  \* cabbage
    <<"l","e","t","t","u","c","e">>,  \* lettuce
    <<"o","n","i","o","n">>,  \* onion
    <<"g","a","r","l","i","c">>,  \* garlic
    <<"z","u","c","c","h","i","n","i">>,  \* zucchini
    <<"e","g","g","p","l","a","n","t">>,  \* eggplant
    <<"a","v","o","c","a","d","o">>,  \* avocado
    <<"m","u","s","h","r","o","o","m">>,  \* mushroom
    <<"e","g","g">>,  \* egg
    <<"b","r","e","a","d">>,  \* bread
    <<"s","a","n","d","w","i","c","h">>,  \* sandwich
    <<"p","i","z","z","a">>,  \* pizza
    <<"c","a","k","e">>,  \* cake
    <<"d","o","n","u","t">>,  \* donut
    <<"b","o","w","l">>,  \* bowl
    <<"g","r","a","p","e","s">>,  \* grapes
    <<"k","i","w","i">>,  \* kiwi
    <<"s","t","r","a","w","b","e","r","r","y">>,  \* strawberry
    <<"p","i","n","e","a","p","p","l","e">>,  \* pineapple
    <<"c","h","e","e","s","e">>,  \* cheese
    <<"y","o","g","u","r","t">>  \* yogurt
}

\* prediction.score >= 0.4
ConfidenceThreshold == 400
\* the comparison with > in place of >=
isStrictlyConfident(prediction) == prediction.score > ConfidenceThreshold

isConfident(prediction) == prediction.score >= ConfidenceThreshold

\* predictions.filter(score >= 0.4).map(lowercase the class).filter(allowed)
ingredientsOf(preds) ==
    LET confident == SelectSeq(preds, isConfident)
        lowered   == [i \in 1..Len(confident) |->
                         [score     |-> confident[i].score,
                          className |-> toLowerCase(confident[i].class)]]
    IN  SelectSeq(lowered, LAMBDA g : g.className \in allowedVisionLabels)

\* Number.parseFloat(x.toFixed(2)) of x given in thousandths: the nearest
\* hundredth, the larger one at a tie
toFixed2(x) == ((x + 5) \div 10) * 10

\* the quantity taken from the score itself, the doubling left out
pantryOfUndoubled(ingredients) ==
    [i \in 1..Len(ingredients) |->
        [name |-> ingredients[i].className, quantity |-> toFixed2(ingredients[i].score)]]

\* ingredients.map(({className, score}) => ({name, quantity: (score * 2).toFixed(2)}))
pantryOf(ingredients) ==
    [i \in 1..Len(ingredients) |->
        [name |-> ingredients[i].className, quantity |-> toFixed2(ingredients[i].score * 2)]]

RECURSIVE sumScores(_)
sumScores(ingredients) ==
    IF ingredients = <<>> THEN 0
    ELSE Head(ingredients).score + sumScores(Tail(ingredients))

\* ingredients.reduce((total, i) => total + i.score, 0) / ingredients.length
averageConfidenceOf(ingredients) == Fraction(sumScores(ingredients), Len(ingredients))

\* formatStatus: Math.round(Math.min(status * 100, 100)) of a fraction of thousandths
formatStatus(status) ==
    LET capped == IF status.num > 1000 * status.den THEN Fraction(1000, 1) ELSE status
    IN  (2 * capped.num + 10 * capped.den) \div (20 * capped.den)

\* the values of visionStatus
Null == [kind |-> "null"]
LoadingModel == [kind |-> "text", text |-> "Loading vision model..."]
Analyzing == [kind |-> "text", text |-> "Analyzing image..."]
NotConfident == [kind |-> "text",
                 text |-> "We could not confidently detect ingredients. Try another angle."]
CouldNotLoadImage == [kind |-> "text", text |-> "Could not load image"]
AnalysisFailed == [kind |-> "text", text |-> "Vision analysis failed."]
Detected(count, percent) == [kind |-> "detected", count |-> count, percent |-> percent]

(***************************************************************************)
(* What the user and the vision model feed the component.                  *)
(***************************************************************************)
\* how many detection runs may be in flight at once
MaxRuns == 2

Person == <<"p","e","r","s","o","n">>

\* the texts typed into the textarea: "2 Egg" and "kiwi, egg"
ManualTexts == {
    <<"2"," ","E","g","g">>,
    <<"k","i","w","i",","," ","e","g","g">> }

\* what model.detect resolves with
Batches == {
    <<[class |-> Egg, score |-> 400]>>,
    <<[class |-> Kiwi, score |-> 399], [class |-> Person, score |-> 900]>>,
    <<[class |-> <<"K","i","w","i">>, score |-> 456],
      [class |-> Person, score |-> 990],
      [class |-> Egg, score |-> 901]>> }

\* the values typed into a chip's quantity field: "" and "2"
ChipQuantities == {Undefined, 2000}

\* what a rejection of the library leaves in visionStatus: error.message of
\* an Error, or the fixed text for anything else thrown
ErrorMessage == [kind |-> "text", text |-> "error.message"]
Thrown == {ErrorMessage, AnalysisFailed}

(***************************************************************************)
(* The component RecipeRecommender.  The detectIngredients runs in flight  *)
(* are a bag: a run is where it is suspended and, once model.detect has    *)
(* resolved, the predictions it resolved with.                             *)
(***************************************************************************)
RunAt(at) == [at |-> at, predictions |-> <<>>]
RunWith(batch) == [at |-> "predictions", predictions |-> batch]
InFlight == BagToSet(runs)
Moved(run, to) == (runs (-) SetToBag({run})) (+) SetToBag({to})
Ended(run) == runs (-) SetToBag({run})

InitApp ==
    /\ pantryItems = <<>>
    /\ manualEntry = <<>>
    /\ visionLoading = FALSE
    /\ visionStatus = Null
    /\ visionConfidence = Zero
    /\ modelPromise = "null"
    /\ loads = 0
    /\ runs = EmptyBag

SetPantryItems(items) == pantryItems' = items

\* the updater returning the two lists joined, unmerged
handleAddPantryItemsUnmerged(current, items) ==
    IF items = <<>> THEN current ELSE current \o items

\* the updater with the new items put before the current ones
handleAddPantryItemsNewFirst(current, items) ==
    IF items = <<>> THEN current ELSE mergePantryItems(items \o current)

\* no updater: the items are merged into the pantry the callback closed
\* over when it was created, the empty one of the first render
handleAddPantryItemsStale(current, items) ==
    IF items = <<>> THEN current ELSE mergePantryItems(<<>> \o items)

\* the updater of handleAddPantryItems, with its early return
handleAddPantryItems(current, items) ==
    IF items = <<>> THEN current ELSE mergePantryItems(current \o items)

\* onChange of the textarea
SetManualEntry(text) ==
    /\ manualEntry # text
    /\ manualEntry' = text
    /\ UNCHANGED <<pantryItems, visionLoading, visionStatus,
                   visionConfidence, modelPromise, loads, runs, others>>

handleManualSubmit ==
    /\ SetPantryItems(handleAddPantryItems(pantryItems, parseManualEntry(manualEntry)))
    /\ manualEntry' = <<>>
    /\ UNCHANGED <<visionLoading, visionStatus, visionConfidence, modelPromise, loads,
                   runs, others>>

removePantryItem(name) ==
    /\ SetPantryItems(SelectSeq(pantryItems, LAMBDA item : item.name # name))
    /\ UNCHANGED <<manualEntry, visionLoading, visionStatus, visionConfidence,
                   modelPromise, loads, runs, others>>

updatePantryQuantity(name, quantity) ==
    /\ SetPantryItems([i \in 1..Len(pantryItems) |->
                          IF pantryItems[i].name = name
                          THEN [pantryItems[i] EXCEPT !.quantity = quantity]
                          ELSE pantryItems[i]])
    /\ UNCHANGED <<manualEntry, visionLoading, visionStatus, visionConfidence,
                   modelPromise, loads, runs, others>>

clearPantry ==
    /\ SetPantryItems(<<>>)
    /\ visionStatus' = Null
    /\ visionConfidence' = Zero
    /\ manualEntry' = <<>>
    /\ UNCHANGED <<visionLoading, modelPromise, loads, runs, others>>

\* the catch and finally blocks of detectIngredients
Caught(run, message) ==
    /\ visionStatus' = message
    /\ visionConfidence' = Zero
    /\ visionLoading' = FALSE
    /\ runs' = Ended(run)

\* the model itself being looked for, not the promise of it: a load is
\* started by every call that comes before the model is there
ModelNotLoaded(promise) == promise # "resolved"

\* if (!modelPromise) of loadVisionModel
NoPromiseKept(promise) == promise = "null"

\* handleImageChange with a file: detectIngredients runs up to its first
\* await, and loadVisionModel starts the load when no promise is kept
handleImageChange ==
    /\ BagCardinality(runs) < MaxRuns
    /\ visionLoading' = TRUE
    /\ visionStatus' = LoadingModel
    /\ modelPromise' = IF NoPromiseKept(modelPromise) THEN "pending" ELSE modelPromise
    /\ loads' = IF NoPromiseKept(modelPromise) THEN loads + 1 ELSE loads
    /\ runs' = runs (+) SetToBag({RunAt("loadVisionModel")})
    /\ UNCHANGED <<pantryItems, manualEntry, visionConfidence, others>>

\* the import and mod.load() settle
ModelSettles(outcome) ==
    /\ modelPromise = "pending"
    /\ modelPromise' = outcome
    /\ UNCHANGED <<loads, pantryItems, manualEntry, visionLoading,
                   visionStatus, visionConfidence, runs, others>>

\* await loadVisionModel() returns: up to the await of the image
ModelAwaited(run) ==
    /\ run.at = "loadVisionModel"
    /\ modelPromise = "resolved"
    /\ visionStatus' = Analyzing
    /\ runs' = Moved(run, RunAt("imageLoad"))
    /\ UNCHANGED <<pantryItems, manualEntry, visionLoading,
                   visionConfidence, modelPromise, loads, others>>

\* await loadVisionModel() throws
ModelFailed(run) ==
    /\ run.at = "loadVisionModel"
    /\ modelPromise = "rejected"
    /\ \E message \in Thrown : Caught(run, message)
    /\ UNCHANGED <<pantryItems, manualEntry, modelPromise, loads, others>>

\* imageElement.onload: model.detect is called
ImageLoaded(run) ==
    /\ run.at = "imageLoad"
    /\ runs' = Moved(run, RunAt("detect"))
    /\ UNCHANGED <<pantryItems, manualEntry, visionLoading,
                   visionStatus, visionConfidence, modelPromise, loads, others>>

\* imageElement.onerror
ImageFailed(run) ==
    /\ run.at = "imageLoad"
    /\ Caught(run, CouldNotLoadImage)
    /\ UNCHANGED <<pantryItems, manualEntry, modelPromise, loads, others>>

\* model.detect resolves with its predictions
DetectResolved(run, batch) ==
    /\ run.at = "detect"
    /\ runs' = Moved(run, RunWith(batch))
    /\ UNCHANGED <<pantryItems, manualEntry, visionLoading,
                   visionStatus, visionConfidence, modelPromise, loads, others>>

\* model.detect rejects
DetectFailed(run) ==
    /\ run.at = "detect"
    /\ \E message \in Thrown : Caught(run, message)
    /\ UNCHANGED <<pantryItems, manualEntry, modelPromise, loads, others>>

\* the rest of detectIngredients, from the predictions to the finally block
ProcessPredictions(run) ==
    /\ run.at = "predictions"
    /\ LET ingredients == ingredientsOf(run.predictions) IN
       IF ingredients = <<>>
       THEN /\ visionStatus' = NotConfident
            /\ visionConfidence' = Zero
            /\ UNCHANGED pantryItems
       ELSE LET averageConfidence == averageConfidenceOf(ingredients) IN
            /\ SetPantryItems(handleAddPantryItems(pantryItems, pantryOf(ingredients)))
            /\ visionConfidence' = averageConfidence
            /\ visionStatus' = Detected(Len(ingredients), formatStatus(averageConfidence))
    /\ visionLoading' = FALSE
    /\ runs' = Ended(run)
    /\ UNCHANGED <<manualEntry, modelPromise, loads, others>>

(***************************************************************************)
(* parseManualEntry on its own, over every text of up to MaxLen characters *)
(* of a small alphabet.                                                    *)
(***************************************************************************)
ParseAlphabet == {"2", "0", ".", " ", "a", "B", ",", "\n"}
Texts == UNION {[1..n -> ParseAlphabet] : n \in 0..MaxLen}

InitParse ==
    /\ input \in Texts
    /\ output = <<>>
    /\ called = FALSE

Parse ==
    /\ ~called
    /\ output' = parseManualEntry(input)
    /\ called' = TRUE
    /\ UNCHANGED <<input, appVars, cardVars>>

(***************************************************************************)
(* The component RecipeCard: the serving slider and the quantity shown for *)
(* one ingredient.  The recipe is a prop; nothing in the card restricts    *)
(* its numbers.                                                            *)
(***************************************************************************)
MaxBase == 4
\* ingredient.quantity, in thousandths
IngredientQuantities == {4, 125, 333, 500, 1000, 1250, 2000}

\* what a quantity that is not a number is shown as
NaN == "NaN"
Infinity == "Infinity"

\* the integers nearest to n / m for m > 0: both neighbours at a tie, where
\* the digit toFixed picks depends on how the double fell next to the tie
Nearest(n, m) ==
    LET f == n \div m
        r == n % m
    IN  IF 2 * r < m THEN {f} ELSE IF 2 * r > m THEN {f + 1} ELSE {f, f + 1}

\* ingredient.quantity * (servings / recipe.baseServings), as a fraction of
\* thousandths
scaled(quantity, target, base) == Fraction(quantity * target, base)

\* formatQuantity with toFixed(1) in its first branch too
formatQuantityOneDecimal(quantity) ==
    IF quantity.den = 0
    THEN {IF quantity.num = 0 THEN NaN ELSE Infinity}
    ELSE IF quantity.num % (1000 * quantity.den) = 0
         THEN {quantity.num \div quantity.den}
         ELSE {100 * t : t \in Nearest(quantity.num, 100 * quantity.den)}

\* formatQuantity with the digits cut off instead of rounded
formatQuantityTruncating(quantity) ==
    IF quantity.den = 0
    THEN {IF quantity.num = 0 THEN NaN ELSE Infinity}
    ELSE IF quantity.num < 1000 * quantity.den
         THEN {10 * (quantity.num \div (10 * quantity.den))}
         ELSE IF quantity.num % (1000 * quantity.den) = 0
              THEN {quantity.num \div quantity.den}
              ELSE {100 * (quantity.num \div (100 * quantity.den))}

\* formatQuantity: the values it can return, in thousandths
formatQuantity(quantity) ==
    IF quantity.den = 0
    THEN {IF quantity.num = 0 THEN NaN ELSE Infinity}
    ELSE IF quantity.num < 1000 * quantity.den
         THEN {10 * h : h \in Nearest(quantity.num, 10 * quantity.den)}
         ELSE IF quantity.num % (1000 * quantity.den) = 0
              THEN {quantity.num \div quantity.den}
              ELSE {100 * t : t \in Nearest(quantity.num, 100 * quantity.den)}

\* the values of the range input, in halves: from min = max(1, base / 2) in
\* steps of 1 up to max = base * 2
sliderValues(base) ==
    LET min == IF base > 2 THEN base ELSE 2
    IN  {v \in min..(4 * base) : (v - min) % 2 = 0}

\* Number.parseInt(event.target.value, 10) of a value given in halves
parseInt(value) == value \div 2

InitCard ==
    /\ baseServings \in 0..MaxBase
    /\ ingredientQuantity \in IngredientQuantities
    /\ servings = baseServings
    /\ shown \in formatQuantity(scaled(ingredientQuantity, servings, baseServings))
    /\ raised = FALSE

\* onChange of the range input
SetServings(value) ==
    /\ servings' = parseInt(value)
    /\ shown' \in formatQuantity(scaled(ingredientQuantity, servings', baseServings))
    /\ UNCHANGED <<baseServings, ingredientQuantity, raised, appVars, parseVars>>

IdleParse ==
    /\ input = <<>>
    /\ output = <<>>
    /\ called = FALSE

IdleCard ==
    /\ baseServings = 1
    /\ ingredientQuantity = 1000
    /\ servings = 1
    /\ shown = 1000
    /\ raised = FALSE

Init == InitApp /\ IdleParse /\ IdleCard

Next ==
    \/ \E text \in ManualTexts : SetManualEntry(text)
    \/ handleManualSubmit
    \/ \E i \in 1..Len(pantryItems) : removePantryItem(pantryItems[i].name)
    \/ \E i \in 1..Len(pantryItems), q \in ChipQuantities :
           updatePantryQuantity(pantryItems[i].name, q)
    \/ clearPantry
    \/ handleImageChange
    \/ \E outcome \in {"resolved", "rejected"} : ModelSettles(outcome)
    \/ \E run \in InFlight : ModelAwaited(run)
    \/ \E run \in InFlight : ModelFailed(run)
    \/ \E run \in InFlight : ImageLoaded(run)
    \/ \E run \in InFlight : ImageFailed(run)
    \/ \E run \in InFlight, batch \in Batches : DetectResolved(run, batch)
    \/ \E run \in InFlight : DetectFailed(run)
    \/ \E run \in InFlight : ProcessPredictions(run)

Spec == Init /\ [][Next]_vars

InitParser == InitApp /\ InitParse /\ IdleCard
NextParser == Parse
SpecParse == InitParser /\ [][NextParser]_vars

InitScaler == InitApp /\ IdleParse /\ InitCard
NextScaler == \E value \in sliderValues(baseServings) : SetServings(value)
SpecScale == InitScaler /\ [][NextScaler]_vars

(***************************************************************************)
(* What the claims about parseManualEntry speak of, said without the       *)
(* parser: the segments of a text, the number a segment starts with, and   *)
(* what follows it.                                                        *)
(***************************************************************************)
Boundaries(text) == {0, Len(text) + 1} \cup {i \in 1..Len(text) : IsSeparator(text[i])}
NthBoundary(text, k) ==
    CHOOSE b \in Boundaries(text) : Cardinality({c \in Boundaries(text) : c < b}) = k - 1
RawSegment(text, k) ==
    SubSeq(text, NthBoundary(text, k) + 1, NthBoundary(text, k + 1) - 1)
Stripped(seg) ==
    LET inked == {i \in 1..Len(seg) : ~IsSpace(seg[i])}
    IN  IF inked = {} THEN <<>>
        ELSE SubSeq(seg, CHOOSE i \in inked : \A j \in inked : i <= j,
                         CHOOSE i \in inked : \A j \in inked : i >= j)
\* the non-empty segments of a text, stripped, in order
SegmentsOf(text) ==
    LET raw == [k \in 1..(Cardinality(Boundaries(text)) - 1) |-> Stripped(RawSegment(text, k))]
    IN  SelectSeq(raw, LAMBDA seg : seg # <<>>)

IsNumeral(p) ==
    /\ p # <<>>
    /\ \A i \in 1..Len(p) : IsDigit(p[i]) \/ p[i] = "."
    /\ Cardinality({i \in 1..Len(p) : p[i] = "."}) <= 1
    /\ IsDigit(p[1]) /\ IsDigit(p[Len(p)])
\* the length of the longest decimal number a segment starts with, 0 if none
LeadingNumber(seg) ==
    LET ends == {k \in 1..Len(seg) : IsNumeral(SubSeq(seg, 1, k))}
    IN  IF ends = {} THEN 0 ELSE CHOOSE k \in ends : \A j \in ends : j <= k
RECURSIVE Power10(_)
Power10(n) == IF n = 0 THEN 1 ELSE 10 * Power10(n - 1)
RECURSIVE SumOf(_)
SumOf(f) ==
    IF DOMAIN f = {} THEN 0
    ELSE LET x == CHOOSE y \in DOMAIN f : TRUE
         IN  f[x] + SumOf([y \in DOMAIN f \ {x} |-> f[y]])
\* the value of a numeral in thousandths: each digit by its place
NumeralValue(p) ==
    LET dots == {i \in 1..Len(p) : p[i] = "."}
        dot  == IF dots = {} THEN Len(p) + 1 ELSE CHOOSE i \in dots : TRUE
    IN  SumOf([i \in 1..(dot - 1) |-> DigitValue(p[i]) * 1000 * Power10(dot - 1 - i)])
        + SumOf([i \in {j \in (dot + 1)..Len(p) : j - dot <= 3} |->
                     DigitValue(p[i]) * Power10(3 - (i - dot))])

\* what follows the leading number, stripped
RestOf(seg) == Stripped(SubSeq(seg, LeadingNumber(seg) + 1, Len(seg)))
\* the number is followed by whitespace, or by a word and then whitespace
HasSeparatedName(seg) ==
    LET b == LeadingNumber(seg)
        w == RunEnd(seg, b, "w")
    IN  /\ b >= 1
        /\ w < Len(seg)
        /\ IsSpace(seg[w + 1])
\* the rest, with a leading word that is followed by whitespace joined to
\* what follows it by one space
JoinedRest(seg) ==
    LET rest == RestOf(seg)
        w    == RunEnd(rest, 0, "w")
    IN  IF w >= 1 /\ w < Len(rest) /\ IsSpace(rest[w + 1])
        THEN SubSeq(rest, 1, w) \o <<" ">> \o Stripped(SubSeq(rest, w + 1, Len(rest)))
        ELSE rest

Distance(x, y) == IF x >= y THEN x - y ELSE y - x
C7_ShownIsRawRounded ==
    (baseServings >= 1 /\ servings >= 1) =>
        LET rawTimesBase == ingredientQuantity * servings IN
        IF rawTimesBase < 1000 * baseServings
        THEN /\ shown % 10 = 0
             /\ Distance(shown * baseServings, rawTimesBase) <= 5 * baseServings
        ELSE IF rawTimesBase % (1000 * baseServings) = 0
             THEN shown * baseServings = rawTimesBase
             ELSE /\ shown % 100 = 0
                  /\ Distance(shown * baseServings, rawTimesBase) <= 50 * baseServings

\* a third of a unit for four is shown for three servings: 0.25 as it is
C7_Witness ==
    /\ baseServings = 4
    /\ servings = 3
    /\ ingredientQuantity = 333
    /\ shown = 250

(***************************************************************************)
(* C8: scaling signals a ValidationError whenever the serving count or the *)
(* base servings are not positive, and no error otherwise.  The card never *)
(* raises: with baseServings = 0 it shows NaN.                             *)
(***************************************************************************)
C8_RejectsNonPositive ==
    raised <=> (servings <= 0 \/ baseServings <= 0)

(***************************************************************************)
(* C9 as stated: with quantity > 0, servings >= 1 and baseServings >= 1    *)
(* the quantity shown is > 0.  It fails: 0.004 is shown as 0.              *)
(***************************************************************************)
C9_ShownIsPositive ==
    (ingredientQuantity > 0 /\ servings >= 1 /\ baseServings >= 1) => shown > 0

(***************************************************************************)
(* C9 as amended: with quantity > 0, servings >= 1 and baseServings >= 1   *)
(* the quantity shown is never negative, it is > 0 whenever the scaled     *)
(* quantity is above 0.005, and it is 0 whenever the scaled quantity is    *)
(* below 0.005.                                                            *)
(***************************************************************************)
C9_ShownIsPositiveAboveHalfCent ==
    (ingredientQuantity > 0 /\ servings >= 1 /\ baseServings >= 1) =>
        /\ shown >= 0
        /\ ingredientQuantity * servings > 5 * baseServings => shown > 0
        /\ ingredientQuantity * servings < 5 * baseServings => shown = 0

\* 0.004 for one, doubled: 0.008 is shown as 0.01
C9_Witness ==
    /\ baseServings = 1
    /\ servings = 2
    /\ ingredientQuantity = 4
    /\ shown = 10

(***************************************************************************)
(* What the claims about the pantry speak of, said without the merge.      *)
(***************************************************************************)
NamesOf(items) == {items[i].name : i \in 1..Len(items)}
KeysOf(stream) == {normalize(stream[i].name) : i \in 1..Len(stream)}
FirstAt(stream, key) ==
    CHOOSE i \in 1..Len(stream) :
        /\ normalize(stream[i].name) = key
        /\ \A j \in 1..(i - 1) : normalize(stream[j].name) # key
LastAt(stream, key) ==
    CHOOSE i \in 1..Len(stream) :
        /\ normalize(stream[i].name) = key
        /\ \A j \in (i + 1)..Len(stream) : normalize(stream[j].name) # key

(***************************************************************************)
(* C1: in every reachable state no two pantry items have the same          *)
(* normalized name.                                                        *)
(***************************************************************************)
C1_OneItemPerNormalizedName ==
    \A i, j \in 1..Len(pantryItems) :
        i # j => normalize(pantryItems[i].name) # normalize(pantryItems[j].name)

\* "kiwi, egg" was submitted and then a detection of an egg merged into it
C1_Witness ==
    pantryItems = <<[name |-> Kiwi, quantity |-> Undefined],
                    [name |-> Egg, quantity |-> 800]>>

(***************************************************************************)
(* C2: when items are added, the result is the merge of the current pantry *)
(* followed by the new items: an item whose normalized name is already     *)
(* present keeps its position, every item takes the quantity of the last   *)
(* entry of the stream with its name, and the names not yet present are    *)
(* appended in the order of their first occurrence.                        *)
(***************************************************************************)
AddedAsClaimed(current, items, result) ==
    LET stream == current \o items IN
    /\ Len(result) = Cardinality(KeysOf(stream))
    /\ NamesOf(result) = KeysOf(stream)
    /\ \A i \in 1..Len(current) : result[i].name = normalize(current[i].name)
    /\ \A k \in 1..Len(result) :
           result[k].quantity = stream[LastAt(stream, result[k].name)].quantity
    /\ \A k, l \in (Len(current) + 1)..Len(result) :
           k < l => FirstAt(items, result[k].name) < FirstAt(items, result[l].name)

C2_AddKeepsPositionLastQuantityWins ==
    [][ /\ handleManualSubmit =>
              AddedAsClaimed(pantryItems, parseManualEntry(manualEntry), pantryItems')
        /\ \A run \in InFlight :
              ProcessPredictions(run) /\ ingredientsOf(run.predictions) # <<>> =>
                  AddedAsClaimed(pantryItems, pantryOf(ingredientsOf(run.predictions)),
                                 pantryItems')
      ]_vars

\* an egg was in the pantry when the batch of a kiwi and then an egg came:
\* the egg stays first with the batch's quantity and the kiwi is appended
C2_Witness ==
    pantryItems = <<[name |-> Egg, quantity |-> 1800],
                    [name |-> Kiwi, quantity |-> 910]>>

(***************************************************************************)
(* C3: the recommendations derived from the pantry hold every recipe once, *)
(* sorted by descending score, recipes of equal score in catalog order; so *)
(* the first one has the greatest score any recipe has for the pantry.     *)
(***************************************************************************)
CatalogIndex(id) == CHOOSE i \in 1..Len(RECIPES) : RECIPES[i].id = id
\* the fraction of a recipe's ingredients that the pantry holds
ShareInPantry(recipe) ==
    LET names == Range(recipe.ingredients)
        held  == {n \in names : \E i \in 1..Len(pantryItems) :
                      normalize(pantryItems[i].name) = normalize(n)}
    IN  IF names = {} THEN Zero ELSE Fraction(Cardinality(held), Cardinality(names))

C3_RankedByScoreThenCatalog ==
    LET ranked == recommendations
        best   == [k \in 1..Len(RECIPES) |-> ShareInPantry(RECIPES[k])]
    IN  /\ Len(ranked) = Len(RECIPES)
        /\ {ranked[i].recipe : i \in 1..Len(ranked)}
               = {RECIPES[i].id : i \in 1..Len(RECIPES)}
        /\ \A i, j \in 1..Len(ranked) :
               i < j =>
                   /\ ~FracLess(ranked[i].score, ranked[j].score)
                   /\ FracEq(ranked[i].score, ranked[j].score) =>
                          CatalogIndex(ranked[i].recipe) < CatalogIndex(ranked[j].recipe)
        /\ \A k \in 1..Len(RECIPES) : ~FracLess(ranked[1].score, best[k])

\* with only a kiwi in the pantry the second recipe of the catalog leads and
\* the recipes without a match follow in catalog order
C3_Witness ==
    /\ NamesOf(pantryItems) = {Kiwi}
    /\ LET ranked == recommendations
       IN  [i \in 1..Len(ranked) |-> ranked[i].recipe]
           = <<"fruit-bowl", "kiwi-omelette", "omelette", "egg-toast", "water">>

(***************************************************************************)
(* C4: a detection becomes a pantry candidate exactly when its confidence  *)
(* is at least 0.4 and its lowercased label is in the allow-list; when no  *)
(* detection of the batch survives, nothing is added to the pantry and the *)
(* aggregate confidence is set to 0.                                       *)
(***************************************************************************)
Survives(prediction) ==
    /\ prediction.score >= 400
    /\ toLowerCase(prediction.class) \in allowedVisionLabels
Survivors(batch) == {i \in 1..Len(batch) : Survives(batch[i])}
LabelsOf(batch, indices) == {toLowerCase(batch[i].class) : i \in indices}

C4_CandidatesAreConfidentAndAllowed ==
    [][ \A run \in InFlight :
            ProcessPredictions(run) =>
                LET batch == run.predictions
                    kept  == Survivors(batch)
                IN  IF kept = {}
                    THEN /\ pantryItems' = pantryItems
                         /\ visionConfidence' = Zero
                         /\ visionStatus' = NotConfident
                    ELSE /\ visionStatus'.kind = "detected"
                         /\ visionStatus'.count = Cardinality(kept)
                         /\ LET candidates == pantryOf(ingredientsOf(batch))
                            IN  /\ Len(candidates) = Cardinality(kept)
                                /\ NamesOf(candidates) = LabelsOf(batch, kept)
      ]_vars

\* the egg seen with confidence exactly 0.4 was kept, and a later batch
\* without a survivor left the pantry as it was
C4_Witness ==
    /\ pantryItems = <<[name |-> Egg, quantity |-> 800]>>
    /\ visionStatus = NotConfident
    /\ visionConfidence = Zero

(***************************************************************************)
(* C10: with several detection runs in flight, each batch's surviving      *)
(* items enter the pantry in one step and whole: a step of a run either    *)
(* leaves the pantry alone or ends a run whose every surviving label is    *)
(* then in the pantry with the quantity of its last surviving detection,   *)
(* every other item being as before, and sets the confidence and the       *)
(* status from that same batch; and whenever the status reports detected   *)
(* items, it and the confidence are those of one batch.                    *)
(***************************************************************************)
LastSurvivor(batch, label) ==
    CHOOSE i \in Survivors(batch) :
        /\ toLowerCase(batch[i].class) = label
        /\ \A j \in Survivors(batch) : toLowerCase(batch[j].class) = label => j <= i
QuantityIn(items, name) == items[CHOOSE i \in 1..Len(items) : items[i].name = name].quantity
SurvivorScores(batch) == SumOf([i \in Survivors(batch) |-> batch[i].score])

AppliedWhole(batch, before, after) ==
    /\ NamesOf(after) = NamesOf(before) \cup LabelsOf(batch, Survivors(batch))
    /\ Len(after) = Cardinality(NamesOf(after))
    /\ \A label \in LabelsOf(batch, Survivors(batch)) :
           LET q == QuantityIn(after, label)
               s == batch[LastSurvivor(batch, label)].score
           IN  q % 10 = 0 /\ Distance(q, 2 * s) <= 5
    /\ \A name \in NamesOf(before) \ LabelsOf(batch, Survivors(batch)) :
           QuantityIn(after, name) = QuantityIn(before, name)

ReportsBatch(batch, status, confidence) ==
    /\ Survivors(batch) # {}
    /\ status.kind = "detected"
    /\ status.count = Cardinality(Survivors(batch))
    /\ confidence.num * Cardinality(Survivors(batch)) = SurvivorScores(batch) * confidence.den
    /\ Distance(status.percent * 10 * Cardinality(Survivors(batch)), SurvivorScores(batch))
           <= 5 * Cardinality(Survivors(batch))

C10_BatchesAreAppliedWhole ==
    /\ [](visionStatus.kind = "detected" =>
             \E batch \in Batches : ReportsBatch(batch, visionStatus, visionConfidence))
    /\ [][ runs' # runs =>
               \/ pantryItems' = pantryItems
               \/ \E run \in InFlight :
                      /\ run.at = "predictions"
                      /\ runs' = Ended(run)
                      /\ AppliedWhole(run.predictions, pantryItems, pantryItems')
                      /\ ReportsBatch(run.predictions, visionStatus', visionConfidence')
         ]_vars

\* the status still reports the batch of one run while another run, which
\* started before that one ended, holds a different batch not yet applied
C10_Witness ==
    /\ visionStatus = Detected(1, 40)
    /\ pantryItems = <<[name |-> Egg, quantity |-> 800]>>
    /\ \E run \in InFlight :
           run.at = "predictions" /\ Cardinality(Survivors(run.predictions)) = 2

(***************************************************************************)
(* C11: for a batch with at least one surviving detection, one pantry      *)
(* candidate is emitted per surviving detection, in detection order, named *)
(* by the lowercased label, with the quantity confidence * 2 rounded to 2  *)
(* decimals; and the aggregate confidence is the mean of the confidences   *)
(* of the surviving detections alone.                                      *)
(***************************************************************************)
\* the index in the batch of its k-th surviving detection
SurvivorAt(batch, k) ==
    CHOOSE i \in Survivors(batch) :
        Cardinality({j \in Survivors(batch) : j < i}) = k - 1

C11_OneCandidatePerSurvivor ==
    [][ \A run \in InFlight :
            ProcessPredictions(run) /\ Survivors(run.predictions) # {} =>
                LET batch      == run.predictions
                    count      == Cardinality(Survivors(batch))
                    candidates == pantryOf(ingredientsOf(batch))
                IN  /\ Len(candidates) = count
                    /\ \A k \in 1..count :
                           LET seen == batch[SurvivorAt(batch, k)] IN
                           /\ candidates[k].name = toLowerCase(seen.class)
                           /\ candidates[k].quantity % 10 = 0
                           /\ Distance(candidates[k].quantity, 2 * seen.score) <= 5
                    /\ visionConfidence'.num * count
                           = SurvivorScores(batch) * visionConfidence'.den
      ]_vars

\* the batch of a kiwi at 0.456, a person at 0.99 and an egg at 0.901 came
\* to an empty pantry: 0.91 kiwi, 1.8 egg, and the mean of the two, 0.6785
C11_Witness ==
    /\ pantryItems = <<[name |-> Kiwi, quantity |-> 910],
                       [name |-> Egg, quantity |-> 1800]>>
    /\ visionConfidence.num * 2 = 1357 * visionConfidence.den
    /\ visionStatus = Detected(2, 68)

(***************************************************************************)
(* C12: visionLoading is true in every state in which a detection run has  *)
(* started and not yet finished, several overlapping runs included, and it *)
(* is false once every started run has finished.  The first half fails: of *)
(* two overlapping runs the one that finishes first sets the flag to false *)
(* while the other is still in flight.                                     *)
(***************************************************************************)
C12_LoadingWhileARunIsInFlight ==
    /\ runs # EmptyBag => visionLoading
    /\ runs = EmptyBag => ~visionLoading

(***************************************************************************)
(* C13: over any number of loadVisionModel calls, one after the other or   *)
(* overlapping, the load of the model is started at most once: the first   *)
(* call creates the shared promise, and every other call, one that comes   *)
(* while the load is pending included, starts nothing and is given that    *)
(* same promise, which is never dropped or replaced.                       *)
(***************************************************************************)
C13_ModelLoadStartedAtMostOnce ==
    /\ [](loads <= 1)
    /\ [](loads = 0 <=> modelPromise = "null")
    /\ [][ BagCardinality(runs') > BagCardinality(runs) =>
               IF modelPromise = "null"
               THEN modelPromise' = "pending" /\ loads' = 1
               ELSE modelPromise' = modelPromise /\ loads' = loads
         ]_vars
    /\ [][ modelPromise # "null" =>
               /\ loads' = loads
               /\ \/ modelPromise' = modelPromise
                  \/ modelPromise = "pending" /\ modelPromise' \in {"resolved", "rejected"}
         ]_vars

\* a second call came while the load the first one started was pending:
\* both runs await the one promise
C13_Witness ==
    /\ modelPromise = "pending"
    /\ loads = 1
    /\ runs = SetToBag({RunAt("loadVisionModel")}) (+) SetToBag({RunAt("loadVisionModel")})

=============================================================================
